---- MODULE Spec2Model ----
(***************************************************************************)
(* Model of frontend_tmp/app/(tabs)/index.tsx: the HomeTab component's     *)
(* scan pipeline (pickAndScan, uploadToBackend) and computeHealthScore.    *)
(*                                                                         *)
(* JavaScript runs each handler to its next await without interruption,    *)
(* and React re-renders before the next event is delivered, so one action  *)
(* is one run-to-completion step: the synchronous prefix of pickAndScan,   *)
(* or the continuation after one awaited operation settles.                *)
(***************************************************************************)
EXTENDS Integers, Sequences, FiniteSets, TLC

VARIABLES
  platform,    \* Platform.OS, fixed for the life of the process
  imageUri,    \* useState<string | null>(null)
  lines,       \* useState<OcrLine[]>([])
  structured,  \* useState<Structured | null>(null)
  busy,        \* useState(false)
  scans,       \* the invocations of pickAndScan, in call order; each holds
               \* its position (the await it is suspended at) and its locals
  alerts,      \* the Alert.alert calls made so far, in order
  posts,       \* the POST requests issued so far, in order
  arg,         \* computeHealthScore: the argument of the call under study
  ret          \* computeHealthScore: its return value, or Pending

vars == <<platform, imageUri, lines, structured, busy, scans, alerts, posts, arg, ret>>
homeVars == <<platform, imageUri, lines, structured, busy, scans, alerts, posts>>
scoreVars == <<arg, ret>>

----------------------------------------------------------------------------
(* Bounds *)

\* pickAndScan invocations modelled in one run
MaxScans == 2
\* longest additives array handed to computeHealthScore
MaxAdditives == 11

----------------------------------------------------------------------------
(* JavaScript values *)

Null == [tag |-> "null"]
Undefined == [tag |-> "undefined"]
Str(v) == [tag |-> "string", value |-> v]
Num(n) == [tag |-> "number", value |-> n]
Arr(items) == [tag |-> "array", items |-> items]
Pending == [tag |-> "pending"]

\* the values the model uses that JavaScript treats as false in a condition
Falsy(v) ==
  \/ v.tag \in {"null", "undefined"}
  \/ v.tag = "string" /\ v.value = ""
  \/ v.tag = "number" /\ v.value = 0
  \/ v.tag = "boolean" /\ ~v.value

Bool(b) == [tag |-> "boolean", value |-> b]

Min(a, b) == IF a <= b THEN a ELSE b
Max(a, b) == IF a >= b THEN a ELSE b

----------------------------------------------------------------------------
(* Objects: a JavaScript object is its entries in insertion order, with    *)
(* distinct keys; a property read finds the entry by key.                  *)

Object(entries) == [tag |-> "object", entries |-> entries]

HasKey(o, k) == \E i \in 1..Len(o.entries) : o.entries[i].key = k

\* o[k]: the value stored under k, undefined when o has no such key
Get(o, k) ==
  IF HasKey(o, k)
    THEN o.entries[CHOOSE i \in 1..Len(o.entries) : o.entries[i].key = k].value
    ELSE Undefined

\* o?.k: undefined when o is null or undefined, else o[k]
OptGet(o, k) == IF o.tag \in {"null", "undefined"} THEN Undefined ELSE Get(o, k)

\* a?.length
OptLength(a) ==
  IF a.tag \in {"null", "undefined"} THEN Undefined ELSE Num(Len(a.items))

\* x || d
OrElse(x, d) == IF Falsy(x) THEN d ELSE x

\* type Structured, restricted to the two fields computeHealthScore reads
StructuredOf(flags, additives) ==
  Object(<<[key |-> "flags", value |-> flags],
           [key |-> "additives", value |-> additives]>>)

----------------------------------------------------------------------------
(* computeHealthScore *)

\* a scoring loop that stops reading the flags at the first one that is not
\* set: the result then depends on the order of the entries
computeHealthScoreStopAtFirstUnset(s) ==
  IF Falsy(s) THEN Null
  ELSE
    LET flags == Get(s, "flags")
        n == IF flags.tag = "object" THEN Len(flags.entries) ELSE 0
        \* entry i is read only when every entry before it holds true
        Read(i) == \A j \in 1..(i - 1) : ~Falsy(flags.entries[j].value)
        Set(k) == \E i \in 1..n : /\ flags.entries[i].key = k
                                  /\ Read(i)
                                  /\ ~Falsy(flags.entries[i].value)
        penalty == (IF Set("palmOil") THEN 10 ELSE 0)
                   + (IF Set("addedSugar") THEN 15 ELSE 0)
                   + (IF Set("addedSalt") THEN 10 ELSE 0)
                   + (IF Set("msgLikeEnhancer") THEN 15 ELSE 0)
        additivePenalty ==
          Min(OrElse(OptLength(Get(s, "additives")), Num(0)).value * 2, 20)
    IN  Num(Max(0, 100 - penalty - additivePenalty))

\* the additive penalty without its cap
computeHealthScoreUncapped(s) ==
  IF Falsy(s) THEN Null
  ELSE
    LET flags == Get(s, "flags")
        penalty == (IF ~Falsy(OptGet(flags, "palmOil")) THEN 10 ELSE 0)
                   + (IF ~Falsy(OptGet(flags, "addedSugar")) THEN 15 ELSE 0)
                   + (IF ~Falsy(OptGet(flags, "addedSalt")) THEN 10 ELSE 0)
                   + (IF ~Falsy(OptGet(flags, "msgLikeEnhancer")) THEN 15 ELSE 0)
        additivePenalty ==
          OrElse(OptLength(Get(s, "additives")), Num(0)).value * 2
    IN  Num(Max(0, 100 - penalty - additivePenalty))

\* the msgLikeEnhancer penalty taken as 10 instead of 15
computeHealthScoreMsgTen(s) ==
  IF Falsy(s) THEN Null
  ELSE
    LET flags == Get(s, "flags")
        penalty == (IF ~Falsy(OptGet(flags, "palmOil")) THEN 10 ELSE 0)
                   + (IF ~Falsy(OptGet(flags, "addedSugar")) THEN 15 ELSE 0)
                   + (IF ~Falsy(OptGet(flags, "addedSalt")) THEN 10 ELSE 0)
                   + (IF ~Falsy(OptGet(flags, "msgLikeEnhancer")) THEN 10 ELSE 0)
        additivePenalty ==
          Min(OrElse(OptLength(Get(s, "additives")), Num(0)).value * 2, 20)
    IN  Num(Max(0, 100 - penalty - additivePenalty))

\* the guard for a missing argument left out: null is scored like {}
computeHealthScoreNoNullGuard(s) ==
  LET flags == IF Falsy(s) THEN Undefined ELSE Get(s, "flags")
      additives == IF Falsy(s) THEN Undefined ELSE Get(s, "additives")
      penalty == (IF ~Falsy(OptGet(flags, "palmOil")) THEN 10 ELSE 0)
                 + (IF ~Falsy(OptGet(flags, "addedSugar")) THEN 15 ELSE 0)
                 + (IF ~Falsy(OptGet(flags, "addedSalt")) THEN 10 ELSE 0)
                 + (IF ~Falsy(OptGet(flags, "msgLikeEnhancer")) THEN 15 ELSE 0)
      additivePenalty == Min(OrElse(OptLength(additives), Num(0)).value * 2, 20)
  IN  Num(Max(0, 100 - penalty - additivePenalty))

computeHealthScore(s) ==
  IF Falsy(s) THEN Null                                     \* if (!s) return null
  ELSE
    LET flags == Get(s, "flags")
        score0 == 100
        score1 == IF ~Falsy(OptGet(flags, "palmOil")) THEN score0 - 10 ELSE score0
        score2 == IF ~Falsy(OptGet(flags, "addedSugar")) THEN score1 - 15 ELSE score1
        score3 == IF ~Falsy(OptGet(flags, "addedSalt")) THEN score2 - 10 ELSE score2
        score4 == IF ~Falsy(OptGet(flags, "msgLikeEnhancer")) THEN score3 - 15 ELSE score3
        additivePenalty ==
          Min(OrElse(OptLength(Get(s, "additives")), Num(0)).value * 2, 20)
        score5 == score4 - additivePenalty
    IN  Num(Max(0, score5))

----------------------------------------------------------------------------
(* The arguments computeHealthScore is studied on *)

ScoredFlags == {"palmOil", "addedSugar", "addedSalt", "msgLikeEnhancer"}
OtherFlags == {"vegan"}
FlagOrder == <<"palmOil", "addedSugar", "addedSalt", "msgLikeEnhancer", "vegan">>

\* every flags object over the five keys, each key absent, true or false
FlagObjects ==
  { Object([i \in 1..Len(ks) |-> [key |-> ks[i], value |-> Bool(f[ks[i]] = "true")]]) :
      <<f, ks>> \in { <<g, SelectSeq(FlagOrder, LAMBDA k : g[k] # "absent")>> :
                        g \in [ScoredFlags \cup OtherFlags -> {"absent", "true", "false"}] } }

Additive(i) ==
  [code |-> "E" \o ToString(99 + i),
   name |-> IF i % 2 = 1 THEN Str("additive") ELSE Null]

AdditiveArrays == { Arr([i \in 1..n |-> Additive(i)]) : n \in 0..MaxAdditives }

ScoreArgs ==
  {Null} \cup { StructuredOf(f, a) : f \in {Undefined} \cup FlagObjects,
                                     a \in {Undefined} \cup AdditiveArrays }

----------------------------------------------------------------------------
(* HomeTab: constants and the values the outside world can answer with *)

Platforms == {"web", "android"}

BACKEND_URL ==
  IF platform = "web" THEN "http://127.0.0.1:8000" ELSE "http://192.168.1.35:8000"

Error(message) == [tag |-> "error", message |-> message]

\* what an awaited operation can reject with: an Error with a message, with an
\* empty message, or a thrown object that has no message
Rejections ==
  { Error(Str("Network request failed")), Error(Str("")), Error(Undefined) }

\* PermissionResponse.status
PermissionStatuses == {"granted", "denied", "undetermined"}

\* ImagePickerResult: cancelled, or one or more assets
Uris == {"uri-a", "uri-b"}
Canceled == [canceled |-> TRUE, assets |-> <<>>]
Picked(assets) == [canceled |-> FALSE, assets |-> assets]
PickerResults ==
  {Canceled} \cup { Picked(<<[uri |-> u]>>) : u \in Uris }
             \cup { Picked(<<[uri |-> "uri-b"], [uri |-> "uri-a"]>>) }

\* Response.status of the POST
Statuses == {200, 300, 404, 500}

Line(text) == Object(<<[key |-> "text", value |-> Str(text)]>>)

\* the parsed bodies of a 2xx response
JsonBodies ==
  { Null,
    Object(<<>>),
    Object(<<[key |-> "lines", value |-> Arr(<<Line("SUGAR")>>)],
             [key |-> "structured", value |-> Null]>>),
    Object(<<[key |-> "structured",
              value |-> Object(<<[key |-> "flags",
                                  value |-> Object(<<[key |-> "addedSugar",
                                                      value |-> Bool(TRUE)]>>)]>>)]>>),
    Object(<<[key |-> "lines", value |-> Arr(<<Line("SALT"), Line("SUGAR")>>)],
             [key |-> "structured", value |-> Object(<<>>)]>>),
    Object(<<[key |-> "lines", value |-> Arr(<<>>)],
             [key |-> "structured",
              value |-> StructuredOf(Object(<<[key |-> "palmOil", value |-> Bool(TRUE)],
                                              [key |-> "vegan", value |-> Bool(FALSE)]>>),
                                     Arr(<<Additive(1)>>))]>>) }

----------------------------------------------------------------------------
(* HomeTab: the state after the first render *)

HomeInit ==
  /\ platform \in Platforms
  /\ imageUri = Null
  /\ lines = Arr(<<>>)
  /\ structured = Null
  /\ busy = FALSE
  /\ scans = <<>>
  /\ alerts = <<>>
  /\ posts = <<>>

Init ==
  /\ HomeInit
  /\ arg = Null
  /\ ret = Pending

----------------------------------------------------------------------------
(* pickAndScan *)

Ids == 1..Len(scans)

At(id, pc) == id \in Ids /\ scans[id].pc = pc

\* the invocations that have been started and have not ended
InFlight == { id \in Ids : scans[id].pc # "done" }

\* invocation id goes on with the locals sc, suspended at pc
Goto(id, sc, pc) ==
  scans' = [scans EXCEPT ![id] = [sc EXCEPT !.pc = pc, !.calls = Append(sc.calls, pc)]]

\* invocation id ends with the locals sc
End(id, sc, outcome) ==
  scans' = [scans EXCEPT ![id] =
              [sc EXCEPT !.pc = "done", !.outcome = outcome, !.endedAt = scans[id].pc]]

\* the alert body without its fallback
AlertBodyNoFallback(e) == e.message

\* the body of the alert: e.message || "Unknown error"
AlertBody(e) == OrElse(e.message, Str("Unknown error"))

\* the message without the status code
ServerErrorMessageNoStatus(status) == Str("Server error")

\* `Server error: ${resp.status}`
ServerErrorMessage(status) == Str("Server error: " \o ToString(status))

\* Response.ok
Ok(status) == status \in 200..299

\* a try block whose state reset is its last statement instead of a finally
\* block: an error leaves busy as it was
ThrowNoFinally(id, sc, e) ==
  /\ alerts' = Append(alerts, [scan |-> id, title |-> "OCR failed",
                               body |-> OrElse(e.message, Str("Unknown error"))])
  /\ busy' = busy
  /\ End(id, [sc EXCEPT !.e = e], "failed")

\* an error e thrown inside the try block: the catch block shows the alert,
\* then the finally block runs
Throw(id, sc, e) ==
  /\ alerts' = Append(alerts, [scan |-> id, title |-> "OCR failed", body |-> AlertBody(e)])
  /\ busy' = FALSE
  /\ End(id, [sc EXCEPT !.e = e], "failed")

\* a cancelled capture reported to the user like an error
ReturnWithAlert(id, sc) ==
  /\ alerts' = Append(alerts, [scan |-> id, title |-> "OCR failed",
                               body |-> Str("Cancelled")])
  /\ busy' = FALSE
  /\ End(id, sc, "cancelled")

\* a return placed where the finally block does not cover it
ReturnNoFinally(id, sc) ==
  /\ alerts' = alerts
  /\ busy' = busy
  /\ End(id, sc, "cancelled")

\* `return` inside the try block: only the finally block runs
Return(id, sc) ==
  /\ alerts' = alerts
  /\ busy' = FALSE
  /\ End(id, sc, "cancelled")

\* an upload that sends the request a second time
uploadToBackendTwice(id, sc, form) ==
  /\ posts' = posts \o <<[scan |-> id, method |-> "POST",
                           url |-> BACKEND_URL \o "/ocr", body |-> form],
                          [scan |-> id, method |-> "POST",
                           url |-> BACKEND_URL \o "/ocr", body |-> form]>>
  /\ scans' = [scans EXCEPT ![id] =
                 [sc EXCEPT !.pc = "fetch /ocr", !.calls = Append(sc.calls, "fetch /ocr")]]

\* uploadToBackend up to its await: the POST is issued
uploadToBackend(id, sc, form) ==
  /\ posts' = Append(posts, [scan |-> id, method |-> "POST",
                             url |-> BACKEND_URL \o "/ocr", body |-> form])
  /\ Goto(id, sc, "fetch /ocr")

\* the locals of an invocation that has run to its first await
NewScan ==
  [pc |-> IF platform = "web" THEN "launchImageLibraryAsync"
                              ELSE "requestCameraPermissionsAsync",
   calls |-> <<IF platform = "web" THEN "launchImageLibraryAsync"
                                   ELSE "requestCameraPermissionsAsync">>,
                               \* the awaited operations it has started
   permission |-> Undefined,   \* const { status }
   result |-> Undefined,       \* let result
   asset |-> Undefined,        \* const asset
   status |-> Undefined,       \* resp.status
   json |-> Undefined,         \* const json
   e |-> Undefined,            \* the error caught
   outcome |-> "running",      \* how the invocation ended
   endedAt |-> "",             \* the await it ended after
   imageAtStart |-> imageUri]  \* imageUri when it was called

\* a start that leaves the results of the scan before in place
pickAndScanNoReset ==
  /\ Len(scans) < MaxScans
  /\ busy' = TRUE
  /\ scans' = Append(scans, NewScan)
  /\ UNCHANGED <<platform, imageUri, lines, structured, alerts, posts, scoreVars>>

\* a start that clears the lines and forgets the structured result
pickAndScanKeepsStructured ==
  /\ Len(scans) < MaxScans
  /\ lines' = Arr(<<>>)
  /\ busy' = TRUE
  /\ scans' = Append(scans, NewScan)
  /\ UNCHANGED <<platform, imageUri, structured, alerts, posts, scoreVars>>

\* a start that does not raise busy
pickAndScanNoBusy ==
  /\ Len(scans) < MaxScans
  /\ lines' = Arr(<<>>)
  /\ structured' = Null
  /\ scans' = Append(scans, NewScan)
  /\ UNCHANGED <<platform, imageUri, busy, alerts, posts, scoreVars>>

\* a start that also clears the image
pickAndScanClearsImage ==
  /\ Len(scans) < MaxScans
  /\ lines' = Arr(<<>>)
  /\ structured' = Null
  /\ imageUri' = Null
  /\ busy' = TRUE
  /\ scans' = Append(scans, NewScan)
  /\ UNCHANGED <<platform, alerts, posts, scoreVars>>

\* The synchronous start of pickAndScan: the three state resets and the first
\* awaited call.
pickAndScan ==
  /\ Len(scans) < MaxScans
  /\ lines' = Arr(<<>>)
  /\ structured' = Null
  /\ busy' = TRUE
  /\ scans' = Append(scans, NewScan)
  /\ UNCHANGED <<platform, imageUri, alerts, posts, scoreVars>>

\* a button that is never disabled
DisabledNever == FALSE

\* <Button ... onPress={pickAndScan} disabled={busy} />
Disabled == busy

\* the user presses the button; a disabled button delivers no press
PressScanButton ==
  /\ ~Disabled
  /\ pickAndScan

\* a check that refuses only an explicit denial
GrantedUnlessDenied(status) == status # "denied"

\* status === "granted"
Granted(status) == status = "granted"

\* requestCameraPermissionsAsync settles
PermissionSettles ==
  \E id \in Ids :
    /\ At(id, "requestCameraPermissionsAsync")
    /\ \/ \E e \in Rejections : Throw(id, scans[id], e)
       \/ \E status \in PermissionStatuses :
            LET sc == [scans[id] EXCEPT !.permission = Str(status)]
            IN  IF ~Granted(status)
                  THEN Throw(id, sc, Error(Str("Camera permission denied")))
                  ELSE /\ Goto(id, sc, "launchCameraAsync")
                       /\ UNCHANGED <<busy, alerts>>
    /\ UNCHANGED <<platform, imageUri, lines, structured, posts, scoreVars>>

\* the asset taken from the end of the list
LastAsset(result) == result.assets[Len(result.assets)]

\* result.assets[0]
FirstAsset(result) == result.assets[1]

\* the code after `result` is assigned, up to the next await
AfterCapture(id, result) ==
  IF result.canceled
    THEN /\ Return(id, [scans[id] EXCEPT !.result = result])
         /\ UNCHANGED <<imageUri, posts>>
    ELSE LET asset == FirstAsset(result)
             sc == [scans[id] EXCEPT !.result = result, !.asset = asset]
         IN  /\ imageUri' = Str(asset.uri)
             /\ UNCHANGED <<busy, alerts>>
             /\ IF platform = "web"
                  THEN /\ Goto(id, sc, "fetch asset.uri")
                       /\ UNCHANGED posts
                  ELSE uploadToBackend(id, sc,
                         [file |-> [uri |-> asset.uri, name |-> "photo.jpg",
                                    type |-> "image/jpeg"]])

\* launchImageLibraryAsync settles (web)
LibrarySettles ==
  \E id \in Ids :
    /\ At(id, "launchImageLibraryAsync")
    /\ \/ \E e \in Rejections : Throw(id, scans[id], e) /\ UNCHANGED <<imageUri, posts>>
       \/ \E result \in PickerResults : AfterCapture(id, result)
    /\ UNCHANGED <<platform, lines, structured, scoreVars>>

\* launchCameraAsync settles (native)
CameraSettles ==
  \E id \in Ids :
    /\ At(id, "launchCameraAsync")
    /\ \/ \E e \in Rejections : Throw(id, scans[id], e) /\ UNCHANGED <<imageUri, posts>>
       \/ \E result \in PickerResults : AfterCapture(id, result)
    /\ UNCHANGED <<platform, lines, structured, scoreVars>>

\* fetch(asset.uri) settles (web)
FetchAssetSettles ==
  \E id \in Ids :
    /\ At(id, "fetch asset.uri")
    /\ \/ \E e \in Rejections : Throw(id, scans[id], e)
       \/ Goto(id, scans[id], "blob") /\ UNCHANGED <<busy, alerts>>
    /\ UNCHANGED <<platform, imageUri, lines, structured, posts, scoreVars>>

\* Response.blob() settles (web); the form is built and posted
BlobSettles ==
  \E id \in Ids :
    /\ At(id, "blob")
    /\ \/ \E e \in Rejections : Throw(id, scans[id], e) /\ UNCHANGED posts
       \/ /\ uploadToBackend(id, scans[id],
                             [file |-> [blob |-> scans[id].asset.uri, name |-> "photo.jpg"]])
          /\ UNCHANGED <<busy, alerts>>
    /\ UNCHANGED <<platform, imageUri, lines, structured, scoreVars>>

\* the POST settles: uploadToBackend throws on a status that is not ok, else
\* starts to parse the body
PostSettles ==
  \E id \in Ids :
    /\ At(id, "fetch /ocr")
    /\ \/ \E e \in Rejections : Throw(id, scans[id], e)
       \/ \E status \in Statuses :
            LET sc == [scans[id] EXCEPT !.status = Num(status)]
            IN  IF ~Ok(status)
                  THEN Throw(id, sc, Error(ServerErrorMessage(status)))
                  ELSE /\ Goto(id, sc, "json")
                       /\ UNCHANGED <<busy, alerts>>
    /\ UNCHANGED <<platform, imageUri, lines, structured, posts, scoreVars>>

\* json?.lines || []
LinesOf(json) == OrElse(OptGet(json, "lines"), Arr(<<>>))

\* a normalisation that takes an object without fields for a missing one
StructuredInUnlessEmpty(json) ==
  LET s == OrElse(OptGet(json, "structured"), Null)
  IN  IF s.tag = "object" /\ s.entries = <<>> THEN Null ELSE s

\* json?.structured || null
StructuredIn(json) == OrElse(OptGet(json, "structured"), Null)

\* Response.json() settles: the two fields are stored, with their defaults,
\* and the finally block runs
JsonSettles ==
  \E id \in Ids :
    /\ At(id, "json")
    /\ \/ /\ \E e \in Rejections : Throw(id, scans[id], e)
          /\ UNCHANGED <<lines, structured>>
       \/ \E json \in JsonBodies :
            /\ lines' = LinesOf(json)
            /\ structured' = StructuredIn(json)
            /\ alerts' = alerts
            /\ busy' = FALSE
            /\ End(id, [scans[id] EXCEPT !.json = json], "success")
    /\ UNCHANGED <<platform, imageUri, posts, scoreVars>>

Settles ==
  \/ PermissionSettles
  \/ LibrarySettles
  \/ CameraSettles
  \/ FetchAssetSettles
  \/ BlobSettles
  \/ PostSettles
  \/ JsonSettles

\* the application: pickAndScan is reached through the button only
Next == PressScanButton \/ Settles

Spec == Init /\ [][Next]_vars

\* the application when every awaited operation (permission prompt, picker or
\* camera, blob fetch, POST, body parse) eventually resolves or rejects
LiveSpec == Spec /\ WF_vars(Settles)

\* the controller on its own: pickAndScan called whatever the button shows
CallPickAndScan == pickAndScan

ControllerNext == CallPickAndScan \/ Settles

ControllerSpec == Init /\ [][ControllerNext]_vars

----------------------------------------------------------------------------
(* What HomeTab renders from its state *)

\* const score = computeHealthScore(structured)
score == computeHealthScore(structured)

\* a view chosen by the raw lines: the structured view only when there are none
StructuredViewUnlessLines == ~Falsy(structured) /\ lines.items = <<>>

\* {structured ? (structured view) : (raw lines fallback)}
StructuredView == ~Falsy(structured)

\* the <Image>, rendered when imageUri is set
ImageShown == IF ~Falsy(imageUri) THEN imageUri ELSE Null

\* the health score text, rendered inside the structured view
ScoreShown ==
  IF StructuredView /\ score # Null
    THEN Str(ToString(score.value) \o "/100")
    ELSE Null

\* the texts of the raw lines, rendered in the fallback view
RawLinesShown ==
  IF StructuredView
    THEN <<>>
    ELSE [i \in 1..Len(lines.items) |-> Get(lines.items[i], "text")]

----------------------------------------------------------------------------
(* Claims about the scan pipeline *)

\* the flags of a structured result that are present and true
TrueFlagsOf(s) ==
  LET fl == Get(s, "flags")
  IN  IF fl.tag # "object" THEN {}
      ELSE { fl.entries[i].key :
               i \in { j \in 1..Len(fl.entries) : fl.entries[j].value = Bool(TRUE) } }

\* the number of additives of a structured result, 0 when it has none
AdditiveCountOf(s) ==
  LET ad == Get(s, "additives")
  IN  IF ad.tag # "array" THEN 0 ELSE Len(ad.items)

\* the score the penalty table gives a structured result
ClosedFormOf(s) ==
  LET ind(f) == IF f \in TrueFlagsOf(s) THEN 1 ELSE 0
      twice == 2 * AdditiveCountOf(s)
  IN  100 - 10 * ind("palmOil") - 15 * ind("addedSugar") - 10 * ind("addedSalt")
          - 15 * ind("msgLikeEnhancer") - (IF twice < 20 THEN twice ELSE 20)

AlertsOf(id) == { i \in 1..Len(alerts) : alerts[i].scan = id }
PostsOf(id) == { i \in 1..Len(posts) : posts[i].scan = id }

Last == Len(scans)

\* C1: a call of pickAndScan while busy is ignored by the controller: it
\* starts no capture, issues no POST, shows no alert and leaves imageUri,
\* lines, structured and busy as they were.
C1_BusyCallIgnored ==
  [][(busy /\ Len(scans') > Len(scans)) =>
       /\ scans'[Len(scans')].pc = "done"
       /\ UNCHANGED <<imageUri, lines, structured, busy, alerts, posts>>]_vars

\* C2: at most one scan is in flight.
C2_AtMostOneInFlight == Cardinality(InFlight) <= 1

\* C2 witness: a second scan, started after the first ended, waits for the
\* POST while the button is disabled
C2_Witness ==
  /\ Len(scans) = 2
  /\ InFlight = {2}
  /\ scans[2].pc = "fetch /ocr"
  /\ Disabled

\* C3: a scan that reaches a terminal transition ends with busy = false.
C3_TerminalBusyFalse ==
  [][\A id \in Ids : (scans[id].pc # "done" /\ scans'[id].pc = "done") => ~busy']_vars

\* C3 witness: one scan has failed on the JSON parse and another has
\* succeeded, and busy is false
C3_Witness ==
  /\ Len(scans) = 2
  /\ scans[1].outcome = "failed" /\ scans[1].endedAt = "json"
  /\ scans[2].outcome = "success"
  /\ ~busy

\* C4: after a cancelled capture busy is false, lines is empty, structured
\* is absent, imageUri is what it was before the scan, and the scan has
\* issued no POST and shown no alert.
C4_CancelledIsSilent ==
  (Last > 0 /\ scans[Last].outcome = "cancelled") =>
    /\ ~busy
    /\ lines = Arr(<<>>)
    /\ structured = Null
    /\ imageUri = scans[Last].imageAtStart
    /\ PostsOf(Last) = {}
    /\ AlertsOf(Last) = {}

\* C4 witness: the second scan was cancelled and the image of the first is
\* still the one shown
C4_Witness ==
  /\ Len(scans) = 2
  /\ scans[1].outcome = "success"
  /\ scans[2].outcome = "cancelled"
  /\ imageUri = Str("uri-a")
  /\ alerts = <<>>

\* the decimal digits of a natural number
RECURSIVE Decimal(_)
Decimal(n) ==
  LET digit == <<"0", "1", "2", "3", "4", "5", "6", "7", "8", "9">>[(n % 10) + 1]
  IN  IF n < 10 THEN digit ELSE Decimal(n \div 10) \o digit

NonSuccess(id) ==
  /\ scans[id].status.tag = "number"
  /\ (scans[id].status.value < 200 \/ scans[id].status.value > 299)

\* C9: a POST answered with a non-success status s ends the scan with the
\* alert body "Server error: s", without the body being parsed into lines and
\* structured, and with busy false.
C9_ServerErrorAlert ==
  \A id \in Ids :
    NonSuccess(id) =>
      /\ scans[id].outcome = "failed"
      /\ scans[id].endedAt = "fetch /ocr"
      /\ \E i \in AlertsOf(id) :
           /\ AlertsOf(id) = {i}
           /\ alerts[i].body = Str("Server error: " \o Decimal(scans[id].status.value))
      /\ id = Last => (~busy /\ lines = Arr(<<>>) /\ structured = Null)

\* C9 witness: a scan answered with 500 has shown "Server error: 500"
C9_Witness ==
  /\ Last > 0
  /\ scans[Last].status = Num(500)
  /\ scans[Last].pc = "done"
  /\ alerts[Len(alerts)].body = Str("Server error: 500")
  /\ ~busy

HasMessage(e) == e.message.tag = "string" /\ e.message.value # ""

\* C10: a failed scan has shown exactly one alert, whose body is the error's
\* message, or "Unknown error" when the error has no message or an empty
\* one; an imageUri written before the failure is still there.
C10_OneAlertPerFailure ==
  \A id \in Ids :
    scans[id].outcome = "failed" =>
      /\ \E i \in AlertsOf(id) :
           /\ AlertsOf(id) = {i}
           /\ alerts[i].body = IF HasMessage(scans[id].e) THEN scans[id].e.message
                                                          ELSE Str("Unknown error")
      /\ (id = Last /\ scans[id].asset # Undefined) => imageUri = Str(scans[id].asset.uri)
      /\ (id = Last /\ scans[id].asset = Undefined) => imageUri = scans[id].imageAtStart

\* C10 witness: the upload of a captured image failed with an error that has
\* no message; the alert shows the fallback and the image is kept
C10_Witness ==
  /\ Last > 0
  /\ scans[Last].outcome = "failed"
  /\ scans[Last].endedAt = "fetch /ocr"
  /\ scans[Last].e = Error(Undefined)
  /\ alerts[Len(alerts)].body = Str("Unknown error")
  /\ imageUri = Str("uri-b")
  /\ scans[Last].imageAtStart = Str("uri-a")

\* the structured field of a parsed body, when it holds an object
StructuredPresent(json) ==
  /\ json.tag = "object"
  /\ HasKey(json, "structured")
  /\ Get(json, "structured").tag = "object"

\* the lines field of a parsed body, when it holds an array
LinesPresent(json) ==
  /\ json.tag = "object"
  /\ HasKey(json, "lines")
  /\ Get(json, "lines").tag = "array"

Succeeded(id) == id \in Ids /\ scans[id].outcome = "success"

\* C11: after a successful response the view is decided by structured alone:
\* a present structured shows the structured view with its score and no raw
\* line; an absent or null structured shows the raw lines and no score.
\* A response {structured: {flags: {addedSugar: true}}} shows the score 85.
C11_ViewDecidedByStructured ==
  Succeeded(Last) =>
    LET json == scans[Last].json
    IN  /\ StructuredPresent(json) =>
             /\ StructuredView
             /\ ScoreShown =
                  Str(Decimal(ClosedFormOf(Get(json, "structured"))) \o "/100")
             /\ RawLinesShown = <<>>
        /\ ~StructuredPresent(json) =>
             /\ ~StructuredView
             /\ ScoreShown = Null
             /\ RawLinesShown =
                  IF LinesPresent(json)
                    THEN [i \in 1..Len(Get(json, "lines").items) |->
                            Get(Get(json, "lines").items[i], "text")]
                    ELSE <<>>
        /\ (StructuredPresent(json) /\ TrueFlagsOf(Get(json, "structured")) = {"addedSugar"}
              /\ AdditiveCountOf(Get(json, "structured")) = 0) =>
             ScoreShown = Str("85/100")

\* C11 witness: a response with two raw lines and an empty structured object
\* is shown as the structured view
C11_Witness ==
  /\ Succeeded(Last)
  /\ StructuredPresent(scans[Last].json)
  /\ Len(lines.items) = 2
  /\ StructuredView
  /\ ScoreShown = Str("100/100")

\* C12: after a successful response lines is the response's lines, or empty
\* when that field is absent; structured is the response's structured, or
\* absent when that field is absent or null; an empty structured object stays
\* present and scores 100.
C12_StoredStateIsNormalizedResponse ==
  Succeeded(Last) =>
    LET json == scans[Last].json
    IN  /\ lines = IF LinesPresent(json) THEN Get(json, "lines") ELSE Arr(<<>>)
        /\ structured = IF StructuredPresent(json) THEN Get(json, "structured") ELSE Null
        /\ (StructuredPresent(json) /\ Get(json, "structured") = Object(<<>>)) =>
             (structured # Null /\ score = Num(100))

\* C12 witness: the response held an empty structured object, which is stored
C12_Witness ==
  /\ Succeeded(Last)
  /\ scans[Last].json # Null
  /\ Get(scans[Last].json, "structured") = Object(<<>>)
  /\ structured = Object(<<>>)
  /\ score = Num(100)

Has(seq, x) == \E i \in 1..Len(seq) : seq[i] = x

\* C13: on a native platform a permission status other than granted ends the
\* scan with the alert "Camera permission denied", with the camera never
\* opened and no POST issued, and the camera is opened only after permission
\* was granted; on web no permission is requested and the library picker is
\* opened.
C13_PermissionGate ==
  \A id \in Ids :
    /\ platform # "web" =>
         /\ scans[id].calls[1] = "requestCameraPermissionsAsync"
         /\ ~Has(scans[id].calls, "launchImageLibraryAsync")
         /\ Has(scans[id].calls, "launchCameraAsync") =>
              scans[id].permission = Str("granted")
         /\ (scans[id].permission.tag = "string"
               /\ scans[id].permission # Str("granted")) =>
              /\ scans[id].outcome = "failed"
              /\ \E i \in AlertsOf(id) :
                   /\ AlertsOf(id) = {i}
                   /\ alerts[i].body = Str("Camera permission denied")
              /\ ~Has(scans[id].calls, "launchCameraAsync")
              /\ PostsOf(id) = {}
    /\ platform = "web" =>
         /\ scans[id].calls[1] = "launchImageLibraryAsync"
         /\ ~Has(scans[id].calls, "requestCameraPermissionsAsync")
         /\ ~Has(scans[id].calls, "launchCameraAsync")

\* C13 witness: an undetermined permission has ended a scan on a native
\* platform, after an earlier scan was granted the camera
C13_Witness ==
  /\ platform # "web"
  /\ Len(scans) = 2
  /\ Has(scans[1].calls, "launchCameraAsync")
  /\ scans[2].permission = Str("undetermined")
  /\ scans[2].outcome = "failed"

\* C14: after a failed scan lines is empty and structured is absent, and an
\* image captured before the failure is still the one displayed.
C14_FailureClearsResultsKeepsImage ==
  (Last > 0 /\ scans[Last].outcome = "failed") =>
    /\ lines = Arr(<<>>)
    /\ structured = Null
    /\ RawLinesShown = <<>>
    /\ ScoreShown = Null
    /\ scans[Last].asset # Undefined =>
         (imageUri = Str(scans[Last].asset.uri) /\ ImageShown = Str(scans[Last].asset.uri))

\* C14 witness: after a scan that stored a structured result, the upload of a
\* newly captured image failed
C14_Witness ==
  /\ Len(scans) = 2
  /\ Succeeded(1)
  /\ StructuredPresent(scans[1].json)
  /\ scans[2].outcome = "failed"
  /\ scans[2].endedAt = "fetch /ocr"
  /\ scans[2].asset = [uri |-> "uri-b"]
  /\ ImageShown = Str("uri-b")
  /\ structured = Null

\* C15: busy is true in every state in which a scan has been triggered and
\* has not reached its terminal transition.
C15_BusyWhileInFlight == InFlight # {} => busy

\* C15 witness: a scan waits for the parsed body, and busy is true
C15_Witness ==
  /\ InFlight = {Last}
  /\ scans[Last].pc = "json"
  /\ busy

\* C16: while a scan is in progress, from its first awaited step on, lines is
\* empty and structured is absent and busy is true: the results of the scan
\* before are not visible.
C16_StartClearsResults ==
  InFlight # {} =>
    /\ lines = Arr(<<>>)
    /\ structured = Null
    /\ busy
    /\ RawLinesShown = <<>>
    /\ ~StructuredView

\* C16 witness: the scan before stored lines and a structured result, and the
\* new scan is at its first awaited step
C16_Witness ==
  /\ Len(scans) = 2
  /\ Succeeded(1)
  /\ StructuredPresent(scans[1].json)
  /\ LinesPresent(scans[1].json)
  /\ InFlight = {2}
  /\ Len(scans[2].calls) = 1
  /\ structured = Null

Captured(id) == id \in Ids /\ scans[id].asset # Undefined

\* C17: once the capture of a scan has succeeded, and while that scan is in
\* progress, imageUri is the URI of the first asset of the result, busy is
\* true, lines is empty and structured is absent; this holds before the POST
\* is issued and when it has been issued, and the POST carries that asset.
C17_ImageSetBeforeUpload ==
  \A id \in Ids :
    Captured(id) =>
      /\ scans[id].asset = scans[id].result.assets[1]
      /\ \A i \in PostsOf(id) :
           posts[i].body.file \in
             { [uri |-> scans[id].result.assets[1].uri, name |-> "photo.jpg",
                type |-> "image/jpeg"],
               [blob |-> scans[id].result.assets[1].uri, name |-> "photo.jpg"] }
      /\ id \in InFlight =>
           /\ imageUri = Str(scans[id].result.assets[1].uri)
           /\ ImageShown = imageUri
           /\ busy
           /\ lines = Arr(<<>>)
           /\ structured = Null

\* C17 witness: a capture of two assets has succeeded and the POST is not yet
\* issued; the image of the first asset is shown while busy
C17_Witness ==
  /\ Last > 0
  /\ Captured(Last)
  /\ Len(scans[Last].result.assets) = 2
  /\ scans[Last].pc = "fetch asset.uri"
  /\ PostsOf(Last) = {}
  /\ busy
  /\ imageUri = Str("uri-b")
  /\ lines = Arr(<<>>)
  /\ structured = Null

\* C18: a scan issues at most one POST, and only after its capture has
\* succeeded; a scan that has ended does nothing more, so a POST is issued
\* only by a scan in progress, one that a press of the button started.
C18_OnePostPerScan ==
  /\ [](\A id \in Ids :
          /\ Cardinality(PostsOf(id)) <= 1
          /\ PostsOf(id) # {} => Captured(id))
  /\ [](\A i \in 1..Len(posts) : posts[i].scan \in Ids)
  /\ [][/\ \A id \in Ids :
             scans[id].pc = "done" =>
               /\ scans'[id] = scans[id]
               /\ \A i \in 1..Len(posts') : posts'[i].scan = id => i <= Len(posts)
        /\ Len(posts') > Len(posts) =>
             /\ Len(posts') = Len(posts) + 1
             /\ posts'[Len(posts')].scan \in InFlight
             /\ PostsOf(posts'[Len(posts')].scan) = {}]_vars

\* C18 witness: the POST of the first scan failed; the only further POST is
\* the one of the second scan
C18_Witness ==
  /\ Len(scans) = 2
  /\ scans[1].outcome = "failed"
  /\ scans[1].endedAt = "fetch /ocr"
  /\ Len(posts) = 2
  /\ posts[1].scan = 1
  /\ posts[2].scan = 2

WaitsForPost == \E id \in Ids : At(id, "fetch /ocr")

\* C19: there is no timeout and no abort: while a scan waits for the answer
\* to its POST busy is true, and the only step that can be taken is the POST
\* resolving or rejecting, so without an answer the scan waits for ever; and
\* when every awaited operation eventually resolves or rejects, every scan
\* that was started eventually reaches busy = false.
C19_NoTimeoutAndFairTermination ==
  /\ [](WaitsForPost => busy)
  /\ [][WaitsForPost => PostSettles]_vars
  /\ [](busy => <>(~busy))

\* C19 witness: a scan has waited for its POST, got an answer and ended
C19_Witness ==
  /\ Last > 0
  /\ Has(scans[Last].calls, "fetch /ocr")
  /\ scans[Last].pc = "done"
  /\ ~busy

CaptureSteps == {"launchImageLibraryAsync", "launchCameraAsync"}

\* C20: imageUri changes only in the step in which a capture succeeds, to the
\* URI of the captured asset; once set it is never absent again; and after a
\* scan that was cancelled or failed before its capture the image is the one
\* from before that scan, shown with cleared results.
C20_ImageWrittenOnlyByCapture ==
  /\ [][imageUri' # imageUri =>
          \E id \in Ids :
            /\ scans[id].pc \in CaptureSteps
            /\ scans'[id].asset # Undefined
            /\ imageUri' = Str(scans'[id].asset.uri)]_vars
  /\ [][imageUri # Null => imageUri' # Null]_vars
  /\ []((Last > 0 /\ scans[Last].pc = "done" /\ scans[Last].asset = Undefined) =>
          /\ scans[Last].outcome \in {"cancelled", "failed"}
          /\ imageUri = scans[Last].imageAtStart
          /\ ImageShown = scans[Last].imageAtStart
          /\ lines = Arr(<<>>)
          /\ structured = Null)

\* C20 witness: the second scan failed before its capture and the image of
\* the first is still shown, with no results
C20_Witness ==
  /\ Len(scans) = 2
  /\ Succeeded(1)
  /\ scans[2].outcome = "failed"
  /\ scans[2].asset = Undefined
  /\ ImageShown = Str("uri-a")
  /\ lines = Arr(<<>>)
  /\ structured = Null

----------------------------------------------------------------------------
(* computeHealthScore on its own: one call on an argument drawn from       *)
(* ScoreArgs                                                               *)

ScoreInit ==
  /\ HomeInit
  /\ arg \in ScoreArgs
  /\ ret = Pending

CallComputeHealthScore ==
  /\ ret = Pending
  /\ ret' = computeHealthScore(arg)
  /\ UNCHANGED <<arg, homeVars>>

ScoreNext == CallComputeHealthScore

ScoreSpec == ScoreInit /\ [][ScoreNext]_vars

----------------------------------------------------------------------------
(* Claims about computeHealthScore, checked under ScoreSpec *)

Returned == ret # Pending

\* the flags of a structured result that are present and true
TrueFlags(a) ==
  LET fl == Get(a, "flags")
  IN  IF fl.tag # "object" THEN {}
      ELSE { fl.entries[i].key : i \in { j \in 1..Len(fl.entries) : fl.entries[j].value = Bool(TRUE) } }

\* the number of additives of a structured result, 0 when it has none
AdditiveCount(a) ==
  LET ad == Get(a, "additives")
  IN  IF ad.tag # "array" THEN 0 ELSE Len(ad.items)

Ind(a, f) == IF f \in TrueFlags(a) THEN 1 ELSE 0

ClosedForm(a) ==
  Max(0, 100 - 10 * Ind(a, "palmOil") - 15 * Ind(a, "addedSugar")
             - 10 * Ind(a, "addedSalt") - 15 * Ind(a, "msgLikeEnhancer")
             - Min(2 * AdditiveCount(a), 20))

\* a with its flags object replaced by one holding the entries e
WithFlagEntries(a, e) == StructuredOf(Object(e), Get(a, "additives"))

\* a with its additives array replaced by one holding the items it
WithAdditiveItems(a, it) == StructuredOf(Get(a, "flags"), Arr(it))

\* a without the flags the penalty table does not name
WithoutOtherFlags(a) ==
  LET fl == Get(a, "flags")
  IN  IF fl.tag # "object" THEN a
      ELSE WithFlagEntries(a, SelectSeq(fl.entries, LAMBDA e : e.key \in ScoredFlags))

\* the part of the penalty that is due to the additives
AdditiveTerm(a) ==
  computeHealthScore(WithAdditiveItems(a, <<>>)).value - computeHealthScore(a).value

\* C5: for a present structured result the score is
\* max(0, 100 - 10[palmOil] - 15[addedSugar] - 10[addedSalt] - 15[msgLikeEnhancer]
\* - min(2n, 20)); flags outside the table do not change it; the additive term
\* is capped at 20 and does not decrease when an additive is added.
C5_ScoreFormula ==
  (Returned /\ arg # Null) =>
    /\ ret = Num(ClosedForm(arg))
    /\ computeHealthScore(WithoutOtherFlags(arg)) = ret
    /\ AdditiveTerm(arg) = Min(2 * AdditiveCount(arg), 20)
    /\ AdditiveTerm(arg) \in 0..20
    /\ LET ad == Get(arg, "additives")
       IN  (ad.tag = "array" /\ Len(ad.items) > 0) =>
             AdditiveTerm(WithAdditiveItems(arg, SubSeq(ad.items, 1, Len(ad.items) - 1)))
               <= AdditiveTerm(arg)

\* C5 witness: a scored call with a flag outside the table set, a scored flag
\* set, and more additives than the cap pays for
C5_Witness ==
  /\ Returned /\ arg # Null
  /\ "vegan" \in TrueFlags(arg)
  /\ "addedSugar" \in TrueFlags(arg)
  /\ AdditiveCount(arg) > 10
  /\ ret = Num(65)

AllScoredFlagsTrue(a) == ScoredFlags \subseteq TrueFlags(a)

\* C6 as claimed: all four scored flags true and 10 or more additives score
\* exactly 10.
C6_AllFlagsTenAdditivesScoreTen ==
  (Returned /\ arg # Null /\ AllScoredFlagsTrue(arg) /\ AdditiveCount(arg) >= 10) =>
    ret = Num(10)

\* C6 as amended: all four scored flags true and 10 or more additives score
\* exactly 30, which is 100 - 10 - 15 - 10 - 15 - 20.
C6_AllFlagsTenAdditivesScoreThirty ==
  (Returned /\ arg # Null /\ AllScoredFlagsTrue(arg) /\ AdditiveCount(arg) >= 10) =>
    ret = Num(30)

\* C6 witness: such a call, with more than 10 additives, has returned 30
C6_Witness ==
  /\ Returned /\ arg # Null
  /\ AllScoredFlagsTrue(arg)
  /\ AdditiveCount(arg) > 10
  /\ ret = Num(30)

\* C7: the result is null exactly when the argument is absent, and an integer
\* in 0..100 otherwise.
C7_NullIffAbsentElseInRange ==
  Returned =>
    /\ (ret = Null) <=> (arg = Null)
    /\ arg # Null => (ret.tag = "number" /\ ret.value \in 0..100)

\* C7 witness: the call on an absent argument has returned null
C7_Witness == Returned /\ arg = Null /\ ret = Null

\* the permutations of 1..n
Perms[n \in 0..5] == { p \in [1..n -> 1..n] : \A i, j \in 1..n : p[i] = p[j] => i = j }

Permute(seq, p) == [i \in 1..Len(seq) |-> seq[p[i]]]

Swap(seq, i, j) ==
  [k \in 1..Len(seq) |-> IF k = i THEN seq[j] ELSE IF k = j THEN seq[i] ELSE seq[k]]

Rotate(seq) == IF seq = <<>> THEN seq ELSE Tail(seq) \o <<Head(seq)>>

\* C8: the score does not depend on the insertion order of the flags nor on
\* the order of the additives: every reordering of the flags entries, and
\* every exchange of two additives and every rotation of the additives, of
\* the argument gives the score returned.
C8_OrderIndependent ==
  (Returned /\ arg # Null) =>
    /\ LET fl == Get(arg, "flags")
       IN  fl.tag = "object" =>
             \A p \in Perms[Len(fl.entries)] :
               computeHealthScore(WithFlagEntries(arg, Permute(fl.entries, p))) = ret
    /\ LET ad == Get(arg, "additives")
       IN  ad.tag = "array" =>
             /\ \A i, j \in 1..Len(ad.items) :
                  computeHealthScore(WithAdditiveItems(arg, Swap(ad.items, i, j))) = ret
             /\ computeHealthScore(WithAdditiveItems(arg, Rotate(ad.items))) = ret

\* C8 witness: a scored call whose flags mix set and unset entries and whose
\* additives differ from one another
C8_Witness ==
  /\ Returned /\ arg # Null
  /\ LET fl == Get(arg, "flags")
     IN  /\ fl.tag = "object"
         /\ Len(fl.entries) = 5
         /\ fl.entries[1].value = Bool(FALSE)
         /\ TrueFlags(arg) = {"addedSugar", "msgLikeEnhancer"}
  /\ AdditiveCount(arg) = 3
  /\ ret = Num(64)

====
